---- MODULE Spec2Model ----
(***************************************************************************)
(* A model of package rsaoeap (pkg/trisa/crypto/rsaoeap/rsaoeap.go): the   *)
(* RSA cipher object, its constructor New and its four methods, together   *)
(* with the parts of crypto/rsa, crypto/x509, crypto/sha256 and            *)
(* encoding/base64 that the methods call.                                  *)
(*                                                                         *)
(* Byte strings that come out of a cryptographic primitive are symbolic    *)
(* terms that record how they were made (which modulus and exponent, which *)
(* hash and label, which seed); lengths are real byte counts.  The         *)
(* primitives act on the terms as the library acts on the bytes: RSA with  *)
(* the private exponent of a pair inverts RSA with its public exponent,    *)
(* OAEP decoding recomputes the label hash and compares it, and the length *)
(* tests are the library's arithmetic.                                     *)
(***************************************************************************)
EXTENDS Integers, Sequences, FiniteSets, TLC

\* ------------------------------------------------------------- bounds
\* Key pairs 1..NumKeys exist besides the zero-value key objects (id 0).
NumKeys == 2
\* Plaintexts are the byte strings of length 0..MaxPlainLen over Bytes.
MaxPlainLen == 2
\* Seeds 1..NumSeeds that the random source may deliver.
NumSeeds == 1
\* Variables the program keeps instances in: two hold an instance built
\* from a public key beside one built from a private key.
NumInst == 2
\* Concurrent callers (goroutines).
NumCallers == 2

\* ---------------------------------------------------- program constants
\* sha512.New().Size()
SHA512Size == 64
\* len(sha256.Sum256(...))
SHA256Size == 32

Bytes == {0, 255}
KeyIds == 1..NumKeys
ObjIds == 0..NumKeys
Seeds == 1..NumSeeds
Insts == 1..NumInst
Callers == 1..NumCallers

\* The modulus of pair 1 is 1024 bits (128 bytes, too short for OAEP with
\* SHA-512); pair k > 1 has 129+k bytes, so pair 2 holds at most 1 byte.
KeyBytes(n) == IF n = 1 THEN 128 ELSE 129 + n

Plaintexts == UNION {[1..n -> Bytes] : n \in 0..MaxPlainLen}

\* ------------------------------------------------------------- values
NoErr == "nil"
NilVal == [t |-> "nil"]
BytesVal(b) == [t |-> "bytes", b |-> b]
StringVal(s) == [t |-> "string", s |-> s]
NoLabel == <<>>

\* Pointers.  obj names the kind of object pointed at; the address of the
\* PublicKey field embedded in a PrivateKey object is a pointer of its own.
NilPtr == [obj |-> "nil", id |-> 0]
PubPtr(k) == [obj |-> "PublicKey", id |-> k]
PrivPtr(k) == [obj |-> "PrivateKey", id |-> k]
FieldPtr(p) == [obj |-> "PrivateKey.PublicKey", id |-> p.id]

\* rsa.PublicKey{N, E} and rsa.PrivateKey{PublicKey, D}.  N = 0 and D = 0
\* stand for nil *big.Int (the zero-value struct); N = k is the modulus of
\* pair k and D = k the private exponent that inverts E modulo it.
PublicKeyOf(k) == [N |-> k, E |-> IF k = 0 THEN 0 ELSE 65537]
PrivateKeyOf(k) == [PublicKey |-> PublicKeyOf(k), D |-> k]

\* The key objects the callers own, as they are before any call.
InitMem ==
  [pub |-> [k \in ObjIds |-> PublicKeyOf(k)],
   priv |-> [k \in ObjIds |-> PrivateKeyOf(k)]]

\* *p for a pointer to a public key.
DerefPub(m, p) ==
  IF p.obj = "PublicKey" THEN m.pub[p.id] ELSE m.priv[p.id].PublicKey

DerefPriv(m, p) == m.priv[p.id]

\* The values a caller can hand to New: pointers to the key objects, nil
\* pointers of both key types, and values of other dynamic types.
KeyInputs ==
  {[type |-> "*rsa.PublicKey", ptr |-> PubPtr(k)] : k \in ObjIds}
  \cup {[type |-> "*rsa.PrivateKey", ptr |-> PrivPtr(k)] : k \in ObjIds}
  \cup {[type |-> "*rsa.PublicKey", ptr |-> NilPtr],
        [type |-> "*rsa.PrivateKey", ptr |-> NilPtr]}
  \cup {[type |-> t, ptr |-> NilPtr] : t \in {"string", "<nil>"}}

\* ------------------------------------------------------------ the type
\* *RSA: nil, or a pointer to a struct with the two fields.
NilRSA == [nil |-> TRUE, pub |-> NilPtr, priv |-> NilPtr]
RSA(pub, priv) == [nil |-> FALSE, pub |-> pub, priv |-> priv]

\* ------------------------------------------------------------- New
New(key) ==
  CASE key.type = "*rsa.PublicKey" ->
         [inst |-> RSA(key.ptr, NilPtr), err |-> NoErr, panic |-> FALSE]
    [] key.type = "*rsa.PrivateKey" ->
         IF key.ptr = NilPtr
           THEN \* &t.PublicKey with t nil: nil pointer dereference
                [inst |-> NilRSA, err |-> NoErr, panic |-> TRUE]
           ELSE [inst |-> RSA(FieldPtr(key.ptr), key.ptr), err |-> NoErr,
                 panic |-> FALSE]
    [] OTHER ->
         [inst |-> NilRSA,
          err |-> "could not create RSA cipher from " \o key.type,
          panic |-> FALSE]

\* ----------------------------------------------------- crypto/rsa
\* The hash.Hash handed to the OAEP functions.
SHA512 == [name |-> "SHA-512", size |-> SHA512Size]

ErrMessageTooLong == "crypto/rsa: message too long for RSA key size"
ErrDecryption == "crypto/rsa: decryption error"
ErrPublicModulus == "crypto/rsa: missing public modulus"
ErrPublicExponentSmall == "crypto/rsa: public exponent too small"
ErrRandom == "crypto/rand: entropy source unavailable"

\* rand.Reader on one call: it delivers a seed or fails.
Random == {[ok |-> TRUE, seed |-> s] : s \in Seeds} \cup {[ok |-> FALSE, seed |-> 0]}

\* checkPub: the sanity tests both OAEP functions apply to the public key.
checkPub(pub) ==
  IF pub.N = 0 THEN ErrPublicModulus
  ELSE IF pub.E < 2 THEN ErrPublicExponentSmall
  ELSE NoErr

\* len(ciphertext)
CtLen(ct) == IF ct.t = "rsa" THEN KeyBytes(ct.n) + Len(ct.extra) ELSE Len(ct.b)

\* rsa.EncryptOAEP(hash, random, pub, msg, label).  The result is the
\* k-byte block RSA(N, E) of the encoded message, which holds the hash of
\* the label, the seed and the message, masked with MGF1 over hash.
EncryptOAEP(hash, random, m, pubptr, msg, label) ==
  IF pubptr = NilPtr
    THEN [ciphertext |-> NilVal, err |-> NoErr, panic |-> TRUE]
    ELSE LET pub == DerefPub(m, pubptr)
             fail(e) == [ciphertext |-> NilVal, err |-> e, panic |-> FALSE]
         IN IF checkPub(pub) # NoErr THEN fail(checkPub(pub))
            ELSE IF Len(msg) > KeyBytes(pub.N) - 2 * hash.size - 2
              THEN fail(ErrMessageTooLong)
            ELSE IF ~random.ok THEN fail(ErrRandom)
            ELSE [ciphertext |->
                    [t |-> "rsa", n |-> pub.N, e |-> pub.E,
                     em |-> [lHash |-> <<hash.name, label>>, mgf |-> hash.name,
                             seed |-> random.seed, msg |-> msg],
                     extra |-> <<>>],
                  err |-> NoErr, panic |-> FALSE]

\* rsa.DecryptOAEP(hash, random, priv, ciphertext, label).  Bytes that are
\* not the RSA block of an encoded message under this key's modulus decode
\* to a block whose label hash does not compare equal.
DecryptOAEP(hash, m, privptr, ct, label) ==
  IF privptr = NilPtr
    THEN [plaintext |-> NilVal, err |-> NoErr, panic |-> TRUE]
    ELSE LET priv == DerefPriv(m, privptr)
             pub == priv.PublicKey
             fail(e) == [plaintext |-> NilVal, err |-> e, panic |-> FALSE]
         IN IF checkPub(pub) # NoErr THEN fail(checkPub(pub))
            ELSE IF CtLen(ct) > KeyBytes(pub.N)
                    \/ KeyBytes(pub.N) < hash.size * 2 + 2
              THEN fail(ErrDecryption)
            ELSE IF ct.t # "rsa" THEN fail(ErrDecryption)
            ELSE IF ct.n # pub.N \/ ct.e # pub.E \/ priv.D # pub.N
              THEN fail(ErrDecryption)
            ELSE IF ct.em.lHash # <<hash.name, label>> \/ ct.em.mgf # hash.name
              THEN fail(ErrDecryption)
            ELSE [plaintext |-> BytesVal(ct.em.msg), err |-> NoErr,
                  panic |-> FALSE]

\* ------------------------------------- crypto/x509, sha256, base64, fmt
\* x509.MarshalPKIXPublicKey(pub) for a *rsa.PublicKey: the DER encoding of
\* SubjectPublicKeyInfo{rsaEncryption, RSAPublicKey{N, E}}.
MarshalPKIXPublicKey(m, pubptr) ==
  IF pubptr = NilPtr
    THEN [data |-> NilVal, err |-> NoErr, panic |-> TRUE]
    ELSE LET pub == DerefPub(m, pubptr) IN
         IF pub.N = 0
           THEN [data |-> NilVal, err |-> "asn1: structure error: empty integer",
                 panic |-> FALSE]
           ELSE [data |-> [der |-> "SubjectPublicKeyInfo",
                           algorithm |-> "rsaEncryption",
                           N |-> pub.N, E |-> pub.E],
                 err |-> NoErr, panic |-> FALSE]

\* sha256.Sum256(data): a 32-byte digest.
Sum256(data) == [hash |-> "SHA-256", of |-> data, len |-> SHA256Size]

\* base64.RawStdEncoding.EncodeToString(src): the standard alphabet, no
\* padding, one character for every 6 bits or part of 6 bits.
RawStdEncodeToString(src) ==
  [alphabet |-> "standard", padding |-> FALSE, of |-> src,
   len |-> (src.len * 8 + 5) \div 6]

\* -------------------------------------------------------- the methods
\* What a method call leaves behind: the returned value and error (or a
\* panic), the library calls it made, and the receiver and the key objects
\* as they are after it.
Result(val, err, panic, calls, c, m) ==
  [val |-> val, err |-> err, panic |-> panic, calls |-> calls,
   self |-> c, mem |-> m]

\* Encrypt with the digest of the fingerprint (sha256.New()) as OAEP hash.
Encrypt_sha256(c, m, plaintext, random) ==
  LET r == EncryptOAEP([name |-> "SHA-256", size |-> SHA256Size], random, m,
                       c.pub, plaintext, NoLabel) IN
  IF r.panic \/ r.err # NoErr
    THEN Result(NilVal, r.err, r.panic, <<"rsa.EncryptOAEP">>, c, m)
    ELSE Result(r.ciphertext, NoErr, FALSE, <<"rsa.EncryptOAEP">>, c, m)

Encrypt(c, m, plaintext, random) ==
  LET r == EncryptOAEP(SHA512, random, m, c.pub, plaintext, NoLabel) IN
  IF r.panic \/ r.err # NoErr
    THEN Result(NilVal, r.err, r.panic, <<"rsa.EncryptOAEP">>, c, m)
    ELSE Result(r.ciphertext, NoErr, FALSE, <<"rsa.EncryptOAEP">>, c, m)

ErrMissingPrivateKey == "private key required for decryption"

\* Decrypt without the test of c.priv.
DecryptCheck_skipped(c, m, ciphertext) ==
  [done |-> FALSE, res |-> Result(NilVal, NoErr, FALSE, <<>>, c, m)]

\* Decrypt up to the return inside the test of c.priv.
DecryptCheck(c, m, ciphertext) ==
  IF c.priv = NilPtr
    THEN [done |-> TRUE,
          res |-> Result(NilVal, ErrMissingPrivateKey, FALSE, <<>>, c, m)]
    ELSE [done |-> FALSE, res |-> Result(NilVal, NoErr, FALSE, <<>>, c, m)]

\* Decrypt with a label where Encrypt has none.
DecryptCrypto_label(c, m, ciphertext) ==
  LET r == DecryptOAEP(SHA512, m, c.priv, ciphertext, <<"trisa">>) IN
  IF r.panic \/ r.err # NoErr
    THEN Result(NilVal, r.err, r.panic, <<"rsa.DecryptOAEP">>, c, m)
    ELSE Result(r.plaintext, NoErr, FALSE, <<"rsa.DecryptOAEP">>, c, m)

\* Decrypt that clears the private exponent of the key object after use.
DecryptCrypto_wipe(c, m, ciphertext) ==
  LET r == DecryptOAEP(SHA512, m, c.priv, ciphertext, NoLabel)
      wiped == IF c.priv = NilPtr THEN m
               ELSE [m EXCEPT !.priv[c.priv.id].D = 0]
  IN IF r.panic \/ r.err # NoErr
       THEN Result(NilVal, r.err, r.panic, <<"rsa.DecryptOAEP">>, c, wiped)
       ELSE Result(r.plaintext, NoErr, FALSE, <<"rsa.DecryptOAEP">>, c, wiped)

\* Decrypt that drops the instance's private key after use.
DecryptCrypto_forget(c, m, ciphertext) ==
  LET r == DecryptOAEP(SHA512, m, c.priv, ciphertext, NoLabel)
      after == [c EXCEPT !.priv = NilPtr]
  IN IF r.panic \/ r.err # NoErr
       THEN Result(NilVal, r.err, r.panic, <<"rsa.DecryptOAEP">>, after, m)
       ELSE Result(r.plaintext, NoErr, FALSE, <<"rsa.DecryptOAEP">>, after, m)

\* Decrypt after the test.
DecryptCrypto(c, m, ciphertext) ==
  LET r == DecryptOAEP(SHA512, m, c.priv, ciphertext, NoLabel) IN
  IF r.panic \/ r.err # NoErr
    THEN Result(NilVal, r.err, r.panic, <<"rsa.DecryptOAEP">>, c, m)
    ELSE Result(r.plaintext, NoErr, FALSE, <<"rsa.DecryptOAEP">>, c, m)

Decrypt(c, m, ciphertext) ==
  LET chk == DecryptCheck(c, m, ciphertext) IN
  IF chk.done THEN chk.res ELSE DecryptCrypto(chk.res.self, chk.res.mem, ciphertext)

EncryptionAlgorithm(c, m) ==
  Result(StringVal(<<"RSA-OAEP-SHA512">>), NoErr, FALSE, <<>>, c, m)

\* PublicKeySignature that goes on to format the digest after the error.
PublicKeySignature_partial(c, m) ==
  LET r == MarshalPKIXPublicKey(m, c.pub) IN
  Result(StringVal(<<"SHA256:", RawStdEncodeToString(Sum256(r.data))>>),
         r.err, r.panic, <<"x509.MarshalPKIXPublicKey">>, c, m)

\* PublicKeySignature with base64.StdEncoding, which pads.
PublicKeySignature_padded(c, m) ==
  LET r == MarshalPKIXPublicKey(m, c.pub)
      sum == Sum256(r.data)
  IN IF r.panic \/ r.err # NoErr
       THEN Result(StringVal(<<>>), r.err, r.panic,
                   <<"x509.MarshalPKIXPublicKey">>, c, m)
       ELSE Result(StringVal(<<"SHA256:",
                     [alphabet |-> "standard", padding |-> TRUE, of |-> sum,
                      len |-> ((sum.len + 2) \div 3) * 4]>>),
                   NoErr, FALSE, <<"x509.MarshalPKIXPublicKey">>, c, m)

PublicKeySignature(c, m) ==
  LET r == MarshalPKIXPublicKey(m, c.pub) IN
  IF r.panic \/ r.err # NoErr
    THEN Result(StringVal(<<>>), r.err, r.panic,
                <<"x509.MarshalPKIXPublicKey">>, c, m)
    ELSE Result(StringVal(<<"SHA256:", RawStdEncodeToString(Sum256(r.data))>>),
                NoErr, FALSE, <<"x509.MarshalPKIXPublicKey">>, c, m)

\* ------------------------------------------------------------- state
\* slot[i]    what New returned into the caller's i-th variable: the key it
\*            was given, the instance as returned (c0) and as it is now (c)
\* mem        the key objects
\* pc, call, ret   each caller's position, its call and what the call returned
\* wire       the ciphertext of the latest successful Encrypt
\* panicked   a call panicked: the program has stopped
VARIABLES slot, mem, pc, call, ret, wire, panicked

vars == <<slot, mem, pc, call, ret, wire, panicked>>

NoSlot == [state |-> "none", key |-> [type |-> "<nil>", ptr |-> NilPtr],
           c |-> NilRSA, c0 |-> NilRSA, err |-> NoErr]
NoRandom == [ok |-> FALSE, seed |-> 0]
NoCall == [op |-> "none", inst |-> 0, arg |-> NilVal, rnd |-> NoRandom]
NoRet == [val |-> NilVal, err |-> NoErr, panic |-> FALSE, calls |-> <<>>]

Init ==
  /\ slot = [i \in Insts |-> NoSlot]
  /\ mem = InitMem
  /\ pc = [p \in Callers |-> "idle"]
  /\ call = [p \in Callers |-> NoCall]
  /\ ret = [p \in Callers |-> NoRet]
  /\ wire = NilVal
  /\ panicked = FALSE

Usable(i) == slot[i].state = "returned" /\ ~slot[i].c.nil

\* The ciphertexts a caller hands to Decrypt: what Encrypt produced, the
\* same with a byte appended, and the empty byte string.
DecryptInputs ==
  {BytesVal(<<>>)}
  \cup (IF wire = NilVal THEN {} ELSE {wire, [wire EXCEPT !.extra = <<0>>]})

DoNew(i, key) ==
  /\ ~panicked
  /\ slot[i].state = "none"
  /\ LET r == New(key) IN
       /\ slot' = [slot EXCEPT ![i] =
            [state |-> IF r.panic THEN "panic" ELSE "returned", key |-> key,
             c |-> r.inst, c0 |-> r.inst, err |-> r.err]]
       /\ panicked' = r.panic
  /\ UNCHANGED <<mem, pc, call, ret, wire>>

\* Caller p's call c on instance i ends with result r.
Complete(p, i, c, r) ==
  /\ call' = [call EXCEPT ![p] = c]
  /\ ret' = [ret EXCEPT ![p] =
       [val |-> r.val, err |-> r.err, panic |-> r.panic, calls |-> r.calls]]
  /\ pc' = [pc EXCEPT ![p] = IF r.panic THEN "panicked" ELSE "returned"]
  /\ slot' = [slot EXCEPT ![i].c = r.self]
  /\ mem' = r.mem
  /\ panicked' = r.panic

CallEncrypt(p, i, plaintext, rnd) ==
  /\ ~panicked /\ pc[p] = "idle" /\ Usable(i)
  /\ LET r == Encrypt(slot[i].c, mem, plaintext, rnd) IN
       /\ Complete(p, i, [op |-> "Encrypt", inst |-> i,
                          arg |-> BytesVal(plaintext), rnd |-> rnd], r)
       /\ wire' = IF r.panic \/ r.err # NoErr THEN wire ELSE r.val

DecryptBegin(p, i, ciphertext) ==
  /\ ~panicked /\ pc[p] = "idle" /\ Usable(i)
  /\ LET chk == DecryptCheck(slot[i].c, mem, ciphertext)
         c == [op |-> "Decrypt", inst |-> i, arg |-> ciphertext,
               rnd |-> NoRandom]
     IN IF chk.done
          THEN Complete(p, i, c, chk.res)
          ELSE /\ call' = [call EXCEPT ![p] = c]
               /\ pc' = [pc EXCEPT ![p] = "decrypting"]
               /\ slot' = [slot EXCEPT ![i].c = chk.res.self]
               /\ mem' = chk.res.mem
               /\ UNCHANGED <<ret, panicked>>
  /\ UNCHANGED wire

DecryptFinish(p) ==
  /\ ~panicked /\ pc[p] = "decrypting"
  /\ LET i == call[p].inst IN
       Complete(p, i, call[p], DecryptCrypto(slot[i].c, mem, call[p].arg))
  /\ UNCHANGED wire

CallEncryptionAlgorithm(p, i) ==
  /\ ~panicked /\ pc[p] = "idle" /\ Usable(i)
  /\ Complete(p, i, [op |-> "EncryptionAlgorithm", inst |-> i,
                     arg |-> NilVal, rnd |-> NoRandom],
              EncryptionAlgorithm(slot[i].c, mem))
  /\ UNCHANGED wire

CallPublicKeySignature(p, i) ==
  /\ ~panicked /\ pc[p] = "idle" /\ Usable(i)
  /\ Complete(p, i, [op |-> "PublicKeySignature", inst |-> i,
                     arg |-> NilVal, rnd |-> NoRandom],
              PublicKeySignature(slot[i].c, mem))
  /\ UNCHANGED wire

\* The caller takes the result and is free to call again.
Return(p) ==
  /\ ~panicked /\ pc[p] = "returned"
  /\ pc' = [pc EXCEPT ![p] = "idle"]
  /\ call' = [call EXCEPT ![p] = NoCall]
  /\ ret' = [ret EXCEPT ![p] = NoRet]
  /\ UNCHANGED <<slot, mem, wire, panicked>>

\* The program with callers ps, which give New the values keys and Encrypt
\* the plaintexts pts.
NextFor(ps, keys, pts) ==
  \/ \E i \in Insts, key \in keys : DoNew(i, key)
  \/ \E p \in ps, i \in Insts, plaintext \in pts, rnd \in Random :
       CallEncrypt(p, i, plaintext, rnd)
  \/ \E p \in ps, i \in Insts, ciphertext \in DecryptInputs :
       DecryptBegin(p, i, ciphertext)
  \/ \E p \in ps : DecryptFinish(p)
  \/ \E p \in ps, i \in Insts : CallEncryptionAlgorithm(p, i)
  \/ \E p \in ps, i \in Insts : CallPublicKeySignature(p, i)
  \/ \E p \in ps : Return(p)

\* One caller, which makes its calls one after another, with every key
\* input and every plaintext.
Next == NextFor({1}, KeyInputs, Plaintexts)

Spec == Init /\ [][Next]_vars

\* All the callers at once, on instances of one key pair that is long
\* enough to encrypt with (pair 2), each built from the public or from the
\* private key, and on plaintexts that fit.
ConcKeyInputs ==
  {[type |-> "*rsa.PublicKey", ptr |-> PubPtr(2)],
   [type |-> "*rsa.PrivateKey", ptr |-> PrivPtr(2)]}
ConcPlaintexts == {<<0>>}

NextConc == NextFor(Callers, ConcKeyInputs, ConcPlaintexts)

SpecConc == Init /\ [][NextConc]_vars

\* ------------------------------------------------------------ claims
Completed(p) == pc[p] \in {"returned", "panicked"}
InstOf(p) == slot[call[p].inst]
FromPublic(i, k) == slot[i].key = [type |-> "*rsa.PublicKey", ptr |-> PubPtr(k)]
FromPrivate(i, k) == slot[i].key = [type |-> "*rsa.PrivateKey", ptr |-> PrivPtr(k)]

\* C1 (round trip): when a Decrypt call on an instance built from the
\* private key of pair K has returned, and its argument is a ciphertext that
\* Encrypt returns without error for a plaintext P on an instance that
\* holds K's public key (built from K's public key or from K's private
\* key), then the call returned P and no error.
C1_RoundTrip ==
  \A p \in Callers :
    (pc[p] = "returned" /\ call[p].op = "Decrypt") =>
      \A k \in KeyIds, j \in Insts :
        ( /\ FromPrivate(call[p].inst, k)
          /\ Usable(j) /\ (FromPublic(j, k) \/ FromPrivate(j, k)) ) =>
          \A P \in Plaintexts, rnd \in Random :
            LET e == Encrypt(slot[j].c, mem, P, rnd) IN
            (~e.panic /\ e.err = NoErr /\ e.val = call[p].arg)
            => (ret[p].err = NoErr /\ ret[p].val = BytesVal(P))

\* A Decrypt on a private-key instance has returned the one-byte plaintext
\* that an instance built from the public key alone encrypted.
C1_Witness ==
  \E p \in Callers, k \in KeyIds, j \in Insts :
    /\ pc[p] = "returned" /\ call[p].op = "Decrypt"
    /\ FromPrivate(call[p].inst, k) /\ FromPublic(j, k)
    /\ call[p].arg = wire
    /\ ret[p].err = NoErr /\ ret[p].val.t = "bytes" /\ Len(ret[p].val.b) = 1

\* C2 (Decrypt without private key): a Decrypt call on an instance that was
\* built from a public key never gets past the test of the private key: it
\* returns nil and the missing-private-key error, and it has made no library
\* call (the ciphertext was not read), whatever the ciphertext and whatever
\* was called before.
C2_DecryptWithoutPrivateKey ==
  \A p \in Callers :
    (call[p].op = "Decrypt" /\ InstOf(p).key.type = "*rsa.PublicKey") =>
      /\ pc[p] = "returned"
      /\ ret[p].err = ErrMissingPrivateKey
      /\ ret[p].val = NilVal
      /\ ret[p].calls = <<>>

\* Decrypt of a ciphertext that Encrypt produced has returned on an instance
\* built from the public key, after at least another call was made.
C2_Witness ==
  \E p \in Callers, k \in KeyIds :
    /\ pc[p] = "returned" /\ call[p].op = "Decrypt"
    /\ FromPublic(call[p].inst, k)
    /\ call[p].arg = wire /\ wire # NilVal /\ wire.n = k
    /\ ret[p].err = ErrMissingPrivateKey

\* C3 (invalid construction): New of a value whose type is neither key type
\* returns nil and an error naming the type, and New returns an instance and
\* no error exactly when the value is of a key type.
C3_InvalidConstruction ==
  \A i \in Insts :
    slot[i].state # "none" =>
      LET isKey == slot[i].key.type \in {"*rsa.PublicKey", "*rsa.PrivateKey"}
          ok == slot[i].state = "returned" /\ slot[i].err = NoErr /\ ~slot[i].c.nil
      IN /\ ~isKey => /\ slot[i].state = "returned" /\ slot[i].c.nil
                      /\ slot[i].err = "could not create RSA cipher from "
                                         \o slot[i].key.type
         /\ ok <=> isKey

\* C4 (key presence): every instance New returns without error has a public
\* key, and when it has a private key its public key is the PublicKey field
\* of that private key.
C4_KeyPresence ==
  \A i \in Insts :
    (slot[i].state = "returned" /\ slot[i].err = NoErr) =>
      /\ slot[i].c.pub # NilPtr
      /\ slot[i].c.priv # NilPtr => slot[i].c.pub = FieldPtr(slot[i].c.priv)

\* The public key an instance holds, when it holds one with a modulus.
HasModulus(i) ==
  Usable(i) /\ slot[i].c.pub # NilPtr /\ DerefPub(mem, slot[i].c.pub).N # 0
SizeOf(i) == KeyBytes(DerefPub(mem, slot[i].c.pub).N)

\* C5 (plaintext size bound): on an instance whose key is k bytes long,
\* Encrypt of a plaintext longer than k - 2*64 - 2 bytes returns the
\* message-too-long error, and Encrypt of a plaintext of exactly that many
\* bytes returns a ciphertext and no error when the random source delivers.
C5_PlaintextSizeBound ==
  \A p \in Callers :
    (Completed(p) /\ call[p].op = "Encrypt" /\ HasModulus(call[p].inst)) =>
      LET max == SizeOf(call[p].inst) - 2 * SHA512Size - 2
          n == Len(call[p].arg.b)
      IN /\ n > max => (pc[p] = "returned" /\ ret[p].err = ErrMessageTooLong
                        /\ ret[p].val = NilVal)
         /\ (n = max /\ call[p].rnd.ok) =>
              (pc[p] = "returned" /\ ret[p].err = NoErr /\ ret[p].val.t = "rsa")

\* Encrypt has succeeded on a plaintext of exactly the maximum length, which
\* is not zero.
C5_Witness ==
  \E p \in Callers :
    /\ pc[p] = "returned" /\ call[p].op = "Encrypt" /\ HasModulus(call[p].inst)
    /\ Len(call[p].arg.b) = SizeOf(call[p].inst) - 2 * SHA512Size - 2
    /\ Len(call[p].arg.b) > 0
    /\ ret[p].err = NoErr

\* C7 (no partial results): a call that returned an error returned nothing
\* else: nil bytes from Encrypt and Decrypt, the empty string from
\* PublicKeySignature, a nil instance from New.
C7_NoPartialResults ==
  /\ \A p \in Callers :
       (pc[p] = "returned" /\ ret[p].err # NoErr) =>
         ret[p].val = (IF call[p].op = "PublicKeySignature"
                         THEN StringVal(<<>>) ELSE NilVal)
  /\ \A i \in Insts :
       (slot[i].state = "returned" /\ slot[i].err # NoErr) => slot[i].c.nil

\* PublicKeySignature has returned an error, and so has New.
C7_Witness ==
  /\ \E p \in Callers :
       pc[p] = "returned" /\ call[p].op = "PublicKeySignature"
       /\ ret[p].err # NoErr
  /\ \E i \in Insts : slot[i].state = "returned" /\ slot[i].err # NoErr

\* C8 (immutability): an instance's two fields are what New returned, and
\* the key objects are what they were, after any calls.
C8_Immutable ==
  /\ mem = InitMem
  /\ \A i \in Insts : slot[i].state = "returned" => slot[i].c = slot[i].c0

\* A Decrypt of the ciphertext of an earlier Encrypt has succeeded on one
\* instance, and New has returned the other.
C8_Witness ==
  \E p \in Callers :
    /\ pc[p] = "returned" /\ call[p].op = "Decrypt" /\ ret[p].err = NoErr
    /\ call[p].arg = wire
    /\ \A i \in Insts : slot[i].state = "returned"

\* The public key an instance was built for.
KeyGiven(i) ==
  IF slot[i].key.type = "*rsa.PublicKey"
    THEN InitMem.pub[slot[i].key.ptr.id]
    ELSE InitMem.priv[slot[i].key.ptr.id].PublicKey

\* "SHA256:" and the unpadded standard base64 (43 characters) of the SHA-256
\* digest (32 bytes) of the DER SubjectPublicKeyInfo of the key.
Fingerprint(key) ==
  StringVal(<<"SHA256:",
              [alphabet |-> "standard", padding |-> FALSE, len |-> 43,
               of |-> [hash |-> "SHA-256", len |-> 32,
                       of |-> [der |-> "SubjectPublicKeyInfo",
                               algorithm |-> "rsaEncryption",
                               N |-> key.N, E |-> key.E]]]>>)

\* C9 (fingerprint determinism): a PublicKeySignature call that returns no
\* error returns the fingerprint of the public key its instance was built
\* for, and a call on any instance built for the same public key (from the
\* public key or from the private key) returns the same string and error.
C9_Fingerprint ==
  \A p \in Callers :
    (Completed(p) /\ call[p].op = "PublicKeySignature"
     /\ InstOf(p).key.ptr # NilPtr) =>
      /\ ret[p].err = NoErr => ret[p].val = Fingerprint(KeyGiven(call[p].inst))
      /\ \A j \in Insts :
           (/\ Usable(j) /\ slot[j].key.ptr # NilPtr
            /\ KeyGiven(j) = KeyGiven(call[p].inst)) =>
             LET r == PublicKeySignature(slot[j].c, mem) IN
             r.val = ret[p].val /\ r.err = ret[p].err /\ r.panic = ret[p].panic

\* A call has returned a fingerprint on an instance built from a private
\* key while the other instance is built from the matching public key.
C9_Witness ==
  \E p \in Callers, k \in KeyIds, j \in Insts :
    /\ pc[p] = "returned" /\ call[p].op = "PublicKeySignature"
    /\ FromPrivate(call[p].inst, k) /\ FromPublic(j, k)
    /\ ret[p].err = NoErr /\ ret[p].val # StringVal(<<>>)

\* What the call c can return when it runs alone on the instance as New
\* returned it.
Outcome(r) == [val |-> r.val, err |-> r.err, panic |-> r.panic, calls |-> r.calls]
AloneOutcomes(c) ==
  LET c0 == slot[c.inst].c0 IN
  CASE c.op = "Encrypt" ->
         {Outcome(Encrypt(c0, InitMem, c.arg.b, rnd)) : rnd \in Random}
    [] c.op = "Decrypt" -> {Outcome(Decrypt(c0, InitMem, c.arg))}
    [] c.op = "EncryptionAlgorithm" -> {Outcome(EncryptionAlgorithm(c0, InitMem))}
    [] c.op = "PublicKeySignature" -> {Outcome(PublicKeySignature(c0, InitMem))}

\* C10 (concurrent safety): whatever the other callers are doing, a call
\* ends the way it can end when it runs alone on the instance.
C10_ConcurrentSafety ==
  \A p \in Callers : Completed(p) => ret[p] \in AloneOutcomes(call[p])

\* A Decrypt has succeeded on an instance while another caller's Decrypt on
\* the same instance is past the test of the private key.
C10_Witness ==
  \E p, q \in Callers :
    /\ p # q /\ call[p].inst = call[q].inst
    /\ pc[p] = "returned" /\ call[p].op = "Decrypt" /\ ret[p].err = NoErr
    /\ pc[q] = "decrypting"
====
